---- MODULE Spec2Model ----
(***************************************************************************)
(* Model of the script executor: ScriptCommunicator.run (the lifecycle of  *)
(* one interpreter subprocess), ScriptResponder (message dispatch) and     *)
(* PythonRunner.runScript (the promise handed to the caller).              *)
(*                                                                         *)
(* Text is modelled as sequences of one-character strings, so that trim,   *)
(* split and the regular-expression test are computed, not assumed.        *)
(* One TLA+ step is one JavaScript job: an event listener run to           *)
(* completion, or a promise reaction.  A pending promise reaction runs     *)
(* before any further event of the handle (microtask before macrotask).    *)
(***************************************************************************)
EXTENDS Integers, Sequences, FiniteSets, TLC

\* ------------------------------------------------------------------ bounds
\* Number of message / error events the handle emits in one run.
MaxEvents == 2

\* Number of runs asked of one Runner.
MaxRuns == 2

\* ------------------------------------------------------------------ text
NL == "\n"
WhiteSpace == {" ", "\n", "\t", "\r"}
LineTerminators == {"\n", "\r"}

EXITING_MESSAGE == <<"E", "x", "i", "t", "i", "n", "g", ".", ".", ".">>
DEFAULT_KEY == <<"_", "d", "e", "f", "a", "u", "l", "t">>

\* String.prototype.trim: drop leading and trailing white space.
RECURSIVE TrimLeft(_)
TrimLeft(str) ==
    IF str # <<>> /\ Head(str) \in WhiteSpace THEN TrimLeft(Tail(str)) ELSE str

RECURSIVE TrimRight(_)
TrimRight(str) ==
    IF str # <<>> /\ str[Len(str)] \in WhiteSpace
    THEN TrimRight(SubSeq(str, 1, Len(str) - 1))
    ELSE str

Trim(str) == TrimRight(TrimLeft(str))

\* String.prototype.includes for a one-character needle.
Includes(str, ch) == \E i \in 1..Len(str) : str[i] = ch

\* String.prototype.split for a one-character separator.
RECURSIVE SplitFrom(_, _, _)
SplitFrom(str, ch, acc) ==
    IF str = <<>> THEN <<acc>>
    ELSE IF Head(str) = ch THEN <<acc>> \o SplitFrom(Tail(str), ch, <<>>)
    ELSE SplitFrom(Tail(str), ch, Append(acc, Head(str)))

Split(str, ch) == SplitFrom(str, ch, <<>>)

\* --------------------------------------------------- regular expressions
\* The subset of JavaScript regular expressions the rule tables use:
\* literal characters, '.', a leading '^', a trailing '$'.  A pattern with
\* an unclosed group is not a regular expression: new RegExp throws.
RegExpValid(pattern) ==
    Cardinality({i \in 1..Len(pattern) : pattern[i] = "("})
        = Cardinality({i \in 1..Len(pattern) : pattern[i] = ")"})

AnchoredStart(pattern) == pattern # <<>> /\ Head(pattern) = "^"
AnchoredEnd(pattern) == pattern # <<>> /\ pattern[Len(pattern)] = "$"

RegExpBody(pattern) ==
    SubSeq(pattern,
           IF AnchoredStart(pattern) THEN 2 ELSE 1,
           IF AnchoredEnd(pattern) THEN Len(pattern) - 1 ELSE Len(pattern))

AtomMatches(atom, ch) ==
    IF atom = "." THEN ch \notin LineTerminators ELSE atom = ch

\* The body matches the text at offset pos (1-based).
BodyMatchesAt(body, str, pos) ==
    /\ pos + Len(body) - 1 <= Len(str)
    /\ \A j \in 1..Len(body) : AtomMatches(body[j], str[pos + j - 1])

\* RegExp.prototype.test without flags: an unanchored search.
RegExpTest(pattern, str) ==
    LET body == RegExpBody(pattern)
    IN \E pos \in 1..(Len(str) + 1) :
          /\ BodyMatchesAt(body, str, pos)
          /\ AnchoredStart(pattern) => pos = 1
          /\ AnchoredEnd(pattern) => pos + Len(body) - 1 = Len(str)

\* ------------------------------------------------------------ inputs
\* Chunks the handle delivers as 'message' events.
M_a == <<"a">>
M_padded == <<" ", "a", " ">>
M_exitPadded == <<" ">> \o EXITING_MESSAGE \o <<NL>>
M_twoLines == <<"a", NL, "b">>
M_exitThenLine == EXITING_MESSAGE \o <<NL, "a">>
M_unclosed == <<"a", "(">>
M_default == DEFAULT_KEY

Chunks == {M_a, M_padded, M_exitPadded, M_twoLines, M_exitThenLine,
          M_unclosed, M_default}

\* Keys of the rule table (responses.js).
K_a == <<"a">>
K_b == <<"b">>
K_anchored == <<"^", "a", "$">>
K_any == <<".">>
K_exit == EXITING_MESSAGE
K_unclosed == <<"a", "(">>

\* What a response callback does with the hooks it is given.
Behaviours == {"noop", "send", "ui", "resolve", "reject", "throw"}

Rule(key, does) == [key |-> key, does |-> does]

\* Rule tables, in the key order Object.keys reports (insertion order).
RuleTables ==
    { <<>>,
      <<Rule(DEFAULT_KEY, "ui")>>,
      <<Rule(K_a, "send"), Rule(K_b, "noop"), Rule(K_any, "ui")>>,
      <<Rule(K_a, "resolve"), Rule(K_any, "reject")>>,
      <<Rule(K_any, "reject"), Rule(K_a, "resolve")>>,
      <<Rule(DEFAULT_KEY, "resolve"), Rule(K_anchored, "noop")>>,
      <<Rule(K_exit, "send"), Rule(DEFAULT_KEY, "ui")>>,
      <<Rule(K_a, "throw"), Rule(K_any, "send")>>,
      <<Rule(K_unclosed, "noop"), Rule(K_a, "send")>>,
      <<Rule(K_anchored, "send"), Rule(K_a, "noop"), Rule(DEFAULT_KEY, "reject")>>,
      <<Rule(K_anchored, "send")>> }

InterpreterClasses == {"PythonShell", "OtherShell"}

\* The runs explored: every rule table under PythonShell (the class
\* runScript passes), and one run under another interpreter class.
RunConfigs ==
    {[responses |-> table, class |-> "PythonShell"] : table \in RuleTables}
        \cup {[responses |-> <<Rule(DEFAULT_KEY, "ui")>>, class |-> "OtherShell"]}

\* Values carried by outcomes.
Undefined == "undefined"
CallbackValue == "callbackValue"
CallbackReason == "callbackReason"
InterpreterErr == "interpreterError"
PythonErr == "pythonError"
SpawnErr == "spawnError"
ShutdownErr == "shutdownError"
NoErr == "noError"

\* ------------------------------------------------------------ promises
Pending == [kind |-> "unset", val |-> Undefined]

\* One entry of the observation log: what was called, in call order.
Entry(ev, key, msg, hist, val) ==
    [ev |-> ev, key |-> key, msg |-> msg, hist |-> hist, val |-> val]

Note(ev, val) == Entry(ev, <<>>, <<>>, <<>>, val)

\* The state an event listener works on while it runs.
\*   outcome        the promise created in run (line 91)
\*   logicMessages  the message history
\*   log            calls made so far
\*   thrown         an exception is propagating
\*   depth          nesting of respondToMessage calls
Frame(outcome, logicMessages, log) ==
    [outcome |-> outcome, logicMessages |-> logicMessages, log |-> log,
     thrown |-> FALSE, depth |-> 0]

\* Variant: a later resolve or reject replaces the settlement.
Settle_LastWins(promise, kind, val) == [kind |-> kind, val |-> val]

\* A promise is settled by the first resolve or reject only.
Settle(promise, kind, val) ==
    IF promise.kind = "unset" THEN [kind |-> kind, val |-> val] ELSE promise

\* resolve of the promise created in run: the completion-success hook.
InnerResolve(f, val) ==
    [f EXCEPT !.outcome = Settle(f.outcome, "success", val),
              !.log = Append(f.log, Note("hookResolve", val))]

\* Variant: the completion-failure hook settles the promise as fulfilled.
InnerReject_Fulfils(f, val) ==
    [f EXCEPT !.outcome = Settle(f.outcome, "success", val),
              !.log = Append(f.log, Note("hookReject", val))]

\* reject of the promise created in run: the completion-failure hook and
\* the onError listener.
InnerReject(f, val) ==
    [f EXCEPT !.outcome = Settle(f.outcome, "failure", val),
              !.log = Append(f.log, Note("hookReject", val))]

\* sendLogicMessage: forwards to interpreter.send.
SendLogicMessage(f) ==
    [f EXCEPT !.log = Append(f.log, Note("send", Undefined))]

\* sendUIMessage as given to the Communicator.
SendUIMessage(f) ==
    [f EXCEPT !.log = Append(f.log, Note("ui", Undefined))]

\* ----------------------------------------------------------- Responder
\* A response callback of the rule table is called with the message, the
\* hooks and the history; what it does is the rule's behaviour.
ResponseCallback(rule, message, f) ==
    LET called == [f EXCEPT !.log = Append(f.log,
                      Entry("callback", rule.key, message, f.logicMessages,
                            rule.does))]
    IN CASE rule.does = "send" -> SendLogicMessage(called)
         [] rule.does = "ui" -> SendUIMessage(called)
         [] rule.does = "resolve" -> InnerResolve(called, CallbackValue)
         [] rule.does = "reject" -> InnerReject(called, CallbackReason)
         [] rule.does = "throw" -> [called EXCEPT !.thrown = TRUE]
         [] OTHER -> called

\* Variant: the sentinel is compared with the untrimmed message.
HandleExitingMessage_NoTrim(message, f) ==
    IF message = EXITING_MESSAGE
    THEN [f |-> InnerResolve(f, Undefined), exited |-> TRUE]
    ELSE [f |-> f, exited |-> FALSE]

HandleExitingMessage(message, f) ==
    IF Trim(message) = EXITING_MESSAGE
    THEN [f |-> InnerResolve(f, Undefined), exited |-> TRUE]
    ELSE [f |-> f, exited |-> FALSE]

\* The test of one prompt against the message (line 320).
PromptMatches(currPrompt, message) ==
    RegExpTest(currPrompt, message) \/ currPrompt = Trim(message)

\* Variant: the loop stops at the first prompt that matches.
RECURSIVE HandleResponseFrom_FirstMatch(_, _, _, _, _)
HandleResponseFrom_FirstMatch(i, table, message, f, handled) ==
    IF i > Len(table) \/ f.thrown \/ handled THEN [f |-> f, handled |-> handled]
    ELSE LET currPrompt == table[i].key
         IN IF currPrompt = DEFAULT_KEY
            THEN HandleResponseFrom_FirstMatch(i + 1, table, message, f, handled)
            ELSE IF ~RegExpValid(currPrompt)
            THEN [f |-> [f EXCEPT !.thrown = TRUE], handled |-> handled]
            ELSE IF PromptMatches(currPrompt, message)
            THEN HandleResponseFrom_FirstMatch(i + 1, table, message,
                     ResponseCallback(table[i], message, f), TRUE)
            ELSE HandleResponseFrom_FirstMatch(i + 1, table, message, f, handled)

\* Variant: the loop does not exclude the "_default" prompt.
RECURSIVE HandleResponseFrom_TestsDefault(_, _, _, _, _)
HandleResponseFrom_TestsDefault(i, table, message, f, handled) ==
    IF i > Len(table) \/ f.thrown THEN [f |-> f, handled |-> handled]
    ELSE LET currPrompt == table[i].key
         IN IF ~RegExpValid(currPrompt)
            THEN [f |-> [f EXCEPT !.thrown = TRUE], handled |-> handled]
            ELSE IF PromptMatches(currPrompt, message)
            THEN HandleResponseFrom_TestsDefault(i + 1, table, message,
                     ResponseCallback(table[i], message, f), TRUE)
            ELSE HandleResponseFrom_TestsDefault(i + 1, table, message, f, handled)

\* The loop of handleResponse from index i on.
RECURSIVE HandleResponseFrom(_, _, _, _, _)
HandleResponseFrom(i, table, message, f, handled) ==
    IF i > Len(table) \/ f.thrown THEN [f |-> f, handled |-> handled]
    ELSE LET currPrompt == table[i].key
         IN IF currPrompt = DEFAULT_KEY
            THEN HandleResponseFrom(i + 1, table, message, f, handled)
            ELSE IF ~RegExpValid(currPrompt)
            THEN [f |-> [f EXCEPT !.thrown = TRUE], handled |-> handled]
            ELSE IF PromptMatches(currPrompt, message)
            THEN HandleResponseFrom(i + 1, table, message,
                     ResponseCallback(table[i], message, f), TRUE)
            ELSE HandleResponseFrom(i + 1, table, message, f, handled)

\* Variant: a message that is already in the history is not tested again.
HandleResponse_SkipsRepeated(table, message, f) ==
    IF \E n \in DOMAIN f.logicMessages : f.logicMessages[n] = message
    THEN [f |-> f, handled |-> TRUE]
    ELSE HandleResponseFrom(1, table, message, f, FALSE)

HandleResponse(table, message, f) ==
    HandleResponseFrom(1, table, message, f, FALSE)

HasDefault(table) == \E i \in 1..Len(table) : table[i].key = DEFAULT_KEY

DefaultRule(table) ==
    table[CHOOSE i \in 1..Len(table) : table[i].key = DEFAULT_KEY]

\* Variant: the message is pushed before it is dispatched.
RespondToLine_PushedFirst(table, message, f) ==
    LET pushed == [f EXCEPT
                     !.logicMessages = Append(f.logicMessages, message),
                     !.log = Append(f.log,
                                    Entry("push", <<>>, message, <<>>, Undefined))]
        exiting == HandleExitingMessage(message, pushed)
        tried == HandleResponse(table, message, exiting.f)
    IN IF exiting.exited THEN exiting.f
       ELSE IF tried.f.thrown THEN tried.f
       ELSE IF ~tried.handled /\ HasDefault(table)
       THEN ResponseCallback(DefaultRule(table), message, tried.f)
       ELSE tried.f

\* Variant: the sentinel returns before the message is pushed.
RespondToLine_SentinelNotPushed(table, message, f) ==
    LET exiting == HandleExitingMessage(message, f)
        tried == HandleResponse(table, message, exiting.f)
        answered ==
            IF exiting.exited THEN exiting.f
            ELSE IF tried.f.thrown THEN tried.f
            ELSE IF ~tried.handled /\ HasDefault(table)
            THEN ResponseCallback(DefaultRule(table), message, tried.f)
            ELSE tried.f
    IN IF answered.thrown \/ exiting.exited THEN answered
       ELSE [answered EXCEPT
               !.logicMessages = Append(answered.logicMessages, message),
               !.log = Append(answered.log,
                              Entry("push", <<>>, message, <<>>, Undefined))]

\* The part of respondToMessage after the split (lines 348-368).
RespondToLine(table, message, f) ==
    LET exiting == HandleExitingMessage(message, f)
        tried == HandleResponse(table, message, exiting.f)
        answered ==
            IF exiting.exited THEN exiting.f
            ELSE IF tried.f.thrown THEN tried.f
            ELSE IF ~tried.handled /\ HasDefault(table)
            THEN ResponseCallback(DefaultRule(table), message, tried.f)
            ELSE tried.f
    IN IF answered.thrown THEN answered
       ELSE [answered EXCEPT
               !.logicMessages = Append(answered.logicMessages, message),
               !.log = Append(answered.log,
                              Entry("push", <<>>, message, <<>>, Undefined))]

RECURSIVE RespondToMessage(_, _, _)
RECURSIVE ForEachLine(_, _, _)

\* The forEach over the lines of a chunk (line 344).
ForEachLine(table, lines, f) ==
    IF lines = <<>> \/ f.thrown THEN f
    ELSE ForEachLine(table, Tail(lines), RespondToMessage(table, Head(lines), f))

\* Variant: the line separator is looked for in the untrimmed message.
RespondToMessage_TestsUntrimmed(table, message, f) ==
    LET entered == [f EXCEPT !.depth = f.depth + 1,
                      !.log = Append(f.log,
                          Entry("respond", <<>>, message, <<>>,
                                IF f.depth = 0 THEN "top" ELSE "nested"))]
        done == IF Includes(message, NL)
                THEN ForEachLine(table, Split(Trim(message), NL), entered)
                ELSE RespondToLine(table, message, entered)
    IN [done EXCEPT !.depth = f.depth]

\* Variant: no return after the forEach, the chunk is handled as a line too.
RespondToMessage_FallsThrough(table, message, f) ==
    LET entered == [f EXCEPT !.depth = f.depth + 1,
                      !.log = Append(f.log,
                          Entry("respond", <<>>, message, <<>>,
                                IF f.depth = 0 THEN "top" ELSE "nested"))]
        split == IF Includes(Trim(message), NL)
                 THEN ForEachLine(table, Split(Trim(message), NL), entered)
                 ELSE entered
        done == IF split.thrown THEN split
                ELSE RespondToLine(table, message, split)
    IN [done EXCEPT !.depth = f.depth]

RespondToMessage(table, message, f) ==
    LET entered == [f EXCEPT !.depth = f.depth + 1,
                      !.log = Append(f.log,
                          Entry("respond", <<>>, message, <<>>,
                                IF f.depth = 0 THEN "top" ELSE "nested"))]
        done == IF Includes(Trim(message), NL)
                THEN ForEachLine(table, Split(Trim(message), NL), entered)
                ELSE RespondToLine(table, message, entered)
    IN [done EXCEPT !.depth = f.depth]

\* ------------------------------------------------------------ host paths
\* process.platform and path.sep.
Platforms == {"posix", "win32"}
PathSep(os) == IF os = "win32" THEN "\\" ELSE "/"

\* Separators path.dirname recognises.
DirSeps(os) == IF os = "win32" THEN {"\\", "/"} ELSE {"/"}

\* String.prototype.includes for a substring.
IncludesText(str, sub) ==
    \E i \in 1..(Len(str) - Len(sub) + 1) : SubSeq(str, i, i + Len(sub) - 1) = sub

\* String.prototype.replace with a string pattern: the first occurrence only.
RECURSIVE ReplaceFirst(_, _, _)
ReplaceFirst(str, sub, with) ==
    IF Len(str) < Len(sub) THEN str
    ELSE IF SubSeq(str, 1, Len(sub)) = sub
    THEN with \o SubSeq(str, Len(sub) + 1, Len(str))
    ELSE <<Head(str)>> \o ReplaceFirst(Tail(str), sub, with)

\* Position of the last character of str that is in chars, 0 when none.
RECURSIVE LastIndexIn(_, _)
LastIndexIn(str, chars) ==
    IF str = <<>> \/ str[Len(str)] \in chars THEN Len(str)
    ELSE LastIndexIn(SubSeq(str, 1, Len(str) - 1), chars)

\* path.dirname of a path without a trailing separator.
Dirname(path, os) ==
    LET last == LastIndexIn(path, DirSeps(os))
    IN IF last = 0 THEN <<".">>
       ELSE IF last = 1 THEN <<path[1]>>
       ELSE SubSeq(path, 1, last - 1)

\* The working directory after process.chdir(dir), for a directory that
\* exists.
Chdir(dir, from, os) ==
    IF dir = <<".">> THEN from
    ELSE IF Head(dir) \in DirSeps(os) THEN dir
    ELSE from \o <<PathSep(os)>> \o dir

ParentPosix == <<".", ".", "/">>
ParentWin32 == <<".", ".", "\\">>

\* The adjustment of the interpreter path (lines 102-109).
AdjustedPythonPath(path, os) ==
    IF IncludesText(path, ParentWin32) \/ IncludesText(path, ParentPosix)
    THEN IF os = "win32" THEN ReplaceFirst(path, ParentWin32, <<>>)
         ELSE ReplaceFirst(path, ParentPosix, <<>>)
    ELSE path

\* The start of the executor in run (lines 93-113): what it leaves in
\* this.script, in the interpreter options and in the working directory.
Adjusted(host) ==
    IF Includes(host.script, PathSep(host.platform))
    THEN LET dir == Dirname(host.script, host.platform)
         IN [host EXCEPT
               !.cwd = Chdir(Dirname(dir, host.platform), host.cwd, host.platform),
               !.pythonPath = AdjustedPythonPath(host.pythonPath, host.platform),
               !.script = SubSeq(dir,
                                 LastIndexIn(dir, {PathSep(host.platform)}) + 1,
                                 Len(dir))]
    ELSE host

\* Scripts asked of runScript, interpreter paths and the working directory
\* the Runner is configured with.
S_module == <<"m">>
S_inDir == <<"d", "/", "m">>
S_nested == <<"r", "/", "d", "/", "m">>
S_nestedWin32 == <<"r", "\\", "d", "\\", "m">>
Scripts == {S_module, S_inDir, S_nested, S_nestedWin32}

P_plain == <<"p">>
P_parent == <<".", ".", "/", "p">>
P_parentWin32 == <<".", ".", "\\", "p">>
PythonPaths == {P_plain, P_parent, P_parentWin32}

StartDir == <<"/", "w">>

\* ---------------------------------------------------------------- state
VARIABLES
    messageResponses,   \* the rule table loaded by run
    interpreterClass,   \* the InterpreterClass given to run
    phase,              \* "created" before run, "running" after
    interpreter,        \* "none" until the handle is constructed
    terminated,         \* interpreter.terminated
    outcome,            \* the promise created in run
    reaction,           \* the promise reaction waiting to run
    endPending,         \* end was called, its callback not yet
    callerPromise,      \* the promise runScript returned
    logicMessages,      \* the message history
    crashed,            \* an exception left an event listener
    events,             \* events emitted by the handle so far
    log,                \* calls made so far, in order
    script,             \* this.script of the Communicator
    pythonPath,         \* interpreterOptions.pythonPath of the Runner
    cwd,                \* the working directory of the process
    platform,           \* process.platform
    exitCode            \* "running" while the entry point waits

hostVars == <<script, pythonPath, cwd, platform>>

vars == <<messageResponses, interpreterClass, phase, interpreter, terminated,
          outcome, reaction, endPending, callerPromise, logicMessages,
          crashed, events, log, hostVars, exitCode>>

Host == [script |-> script, pythonPath |-> pythonPath, cwd |-> cwd,
         platform |-> platform]

\* The run state a new Communicator starts from.
FreshRun ==
    /\ phase = "created"
    /\ interpreter = "none"
    /\ terminated = FALSE
    /\ outcome = Pending
    /\ reaction = "none"
    /\ endPending = FALSE
    /\ callerPromise = Pending
    /\ logicMessages = <<>>
    /\ crashed = FALSE
    /\ events = 0
    /\ exitCode = "running"

Init ==
    /\ \E config \in RunConfigs :
          /\ messageResponses = config.responses
          /\ interpreterClass = config.class
    /\ FreshRun
    /\ log = <<>>
    /\ script = S_module
    /\ pythonPath = P_plain
    /\ cwd = StartDir
    /\ platform = "posix"

\* Variant: every hook call on a settled promise schedules its reaction
\* again.
Scheduled_NotOnce(before, after) ==
    IF after.kind = "unset" THEN reaction
    ELSE IF after.kind = "success" THEN "then" ELSE "catch"

\* The reaction a settlement of the promise created in run schedules:
\* the then callback for a success, the catch callback for a failure.
Scheduled(before, after) ==
    IF before.kind # "unset" \/ after.kind = "unset" THEN reaction
    ELSE IF after.kind = "success" THEN "then" ELSE "catch"

\* resolve and reject of the promise runScript returns.
OuterResolve(promise, val) == Settle(promise, "fulfilled", val)
OuterReject(promise, val) == Settle(promise, "rejected", val)

\* The reaction of the entry point to the settled promise of runScript is
\* waiting to run.
EntryWaiting == callerPromise.kind # "unset" /\ exitCode = "running"

\* The handle can emit an event: it exists, the process is alive and no
\* promise reaction is waiting.
Listening ==
    /\ phase = "running"
    /\ interpreter = "handle"
    /\ reaction \notin {"then", "catch"}
    /\ ~EntryWaiting
    /\ ~crashed

\* The executor of the promise in run, up to the wiring of the listeners.
RunSpawns ==
    /\ phase = "created"
    /\ phase' = "running"
    /\ script' = Adjusted(Host).script
    /\ pythonPath' = Adjusted(Host).pythonPath
    /\ cwd' = Adjusted(Host).cwd
    /\ interpreter' = "handle"
    /\ log' = Append(log, Note("spawn", Undefined))
    /\ UNCHANGED <<messageResponses, interpreterClass, terminated, outcome,
                   reaction, endPending, callerPromise, logicMessages,
                   crashed, events, platform, exitCode>>

\* The same executor when the interpreter factory throws: the promise is
\* rejected with what was thrown and no handle exists.
RunSpawnFails ==
    /\ phase = "created"
    /\ phase' = "running"
    /\ script' = Adjusted(Host).script
    /\ pythonPath' = Adjusted(Host).pythonPath
    /\ cwd' = Adjusted(Host).cwd
    /\ outcome' = Settle(outcome, "failure", SpawnErr)
    /\ reaction' = Scheduled(outcome, outcome')
    /\ log' = Append(log, Note("spawnFailed", SpawnErr))
    /\ UNCHANGED <<messageResponses, interpreterClass, interpreter, terminated,
                   endPending, callerPromise, logicMessages, crashed, events,
                   platform, exitCode>>

\* The 'message' listener.
MessageEvent(chunk) ==
    /\ Listening
    /\ events < MaxEvents
    /\ LET f == RespondToMessage(messageResponses, chunk,
                   Frame(outcome, logicMessages,
                         Append(log, Entry("message", <<>>, chunk, <<>>, Undefined))))
       IN /\ outcome' = f.outcome
          /\ logicMessages' = f.logicMessages
          /\ crashed' = f.thrown
          /\ log' = IF f.thrown THEN Append(f.log, Note("uncaught", Undefined))
                    ELSE Append(f.log, Note("responded", Undefined))
          /\ reaction' = Scheduled(outcome, f.outcome)
          /\ exitCode' = IF f.thrown THEN "1" ELSE exitCode
    /\ events' = events + 1
    /\ UNCHANGED <<messageResponses, interpreterClass, phase, interpreter,
                   terminated, endPending, callerPromise, hostVars>>

\* Variant: onError is subscribed to 'error' only.
Subscribed_ErrorOnly(name) == name = "error"

\* Whether run subscribed onError to the event.
Subscribed(name) == name = "error" \/ interpreterClass = "PythonShell"

\* An 'error' or 'pythonError' event of the handle.
ErrorEvent(name, err) ==
    /\ Listening
    /\ events < MaxEvents
    /\ LET emitted == Frame(outcome, logicMessages, Append(log, Note(name, err)))
           f == IF Subscribed(name) THEN InnerReject(emitted, err) ELSE emitted
       IN /\ outcome' = f.outcome
          /\ log' = f.log
          /\ reaction' = Scheduled(outcome, f.outcome)
    /\ events' = events + 1
    /\ UNCHANGED <<messageResponses, interpreterClass, phase, interpreter,
                   terminated, endPending, callerPromise, logicMessages,
                   crashed, hostVars, exitCode>>

\* The subprocess stops: the handle sets its terminated flag.
ProcessExits ==
    /\ Listening
    /\ ~terminated
    /\ terminated' = TRUE
    /\ log' = Append(log, Note("exited", Undefined))
    /\ UNCHANGED <<messageResponses, interpreterClass, phase, interpreter,
                   outcome, reaction, endPending, callerPromise,
                   logicMessages, crashed, events, hostVars, exitCode>>

\* The then callback (lines 174-194).
\* Variant: the then callback kills the subprocess.
ThenReaction_Kills ==
    /\ reaction = "then"
    /\ ~crashed
    /\ reaction' = "done"
    /\ IF ~terminated
       THEN /\ endPending' = TRUE
            /\ log' = Append(log, Note("kill", Undefined))
       ELSE UNCHANGED <<endPending, log>>
    /\ UNCHANGED <<messageResponses, interpreterClass, phase, interpreter,
                   terminated, outcome, callerPromise, logicMessages,
                   crashed, events, hostVars, exitCode>>

ThenReaction ==
    /\ reaction = "then"
    /\ ~crashed
    /\ reaction' = "done"
    /\ IF ~terminated
       THEN /\ endPending' = TRUE
            /\ log' = Append(log, Note("end", Undefined))
       ELSE UNCHANGED <<endPending, log>>
    /\ UNCHANGED <<messageResponses, interpreterClass, phase, interpreter,
                   terminated, outcome, callerPromise, logicMessages,
                   crashed, events, hostVars, exitCode>>

\* Variant: the caller is rejected before the subprocess is killed.
CatchReaction_RejectFirst ==
    /\ reaction = "catch"
    /\ ~crashed
    /\ reaction' = "done"
    /\ IF interpreter = "none"
       THEN /\ log' = Append(log, Note("typeError", Undefined))
            /\ UNCHANGED callerPromise
       ELSE /\ log' = Append(log, Note("reject", outcome.val)) \o
                      (IF ~terminated THEN <<Note("kill", Undefined)>>
                       ELSE <<>>)
            /\ callerPromise' = OuterReject(callerPromise, outcome.val)
    /\ UNCHANGED <<messageResponses, interpreterClass, phase, interpreter,
                   terminated, outcome, endPending, logicMessages, crashed,
                   events, hostVars, exitCode>>

\* The catch callback (lines 197-209).  Without a handle, reading
\* interpreter.terminated throws and the callback ends there.
\* Variant: the catch callback kills without reading the terminated flag.
CatchReaction_KillsUnchecked ==
    /\ reaction = "catch"
    /\ ~crashed
    /\ reaction' = "done"
    /\ IF interpreter = "none"
       THEN /\ log' = Append(log, Note("typeError", Undefined))
            /\ UNCHANGED callerPromise
       ELSE /\ log' = log \o <<Note("kill", Undefined),
                              Note("reject", outcome.val)>>
            /\ callerPromise' = OuterReject(callerPromise, outcome.val)
    /\ UNCHANGED <<messageResponses, interpreterClass, phase, interpreter,
                   terminated, outcome, endPending, logicMessages, crashed,
                   events, hostVars, exitCode>>

CatchReaction ==
    /\ reaction = "catch"
    /\ ~crashed
    /\ reaction' = "done"
    /\ IF interpreter = "none"
       THEN /\ log' = Append(log, Note("typeError", Undefined))
            /\ UNCHANGED callerPromise
       ELSE /\ log' = (IF ~terminated THEN Append(log, Note("kill", Undefined))
                       ELSE log) \o <<Note("reject", outcome.val)>>
            /\ callerPromise' = OuterReject(callerPromise, outcome.val)
    /\ UNCHANGED <<messageResponses, interpreterClass, phase, interpreter,
                   terminated, outcome, endPending, logicMessages, crashed,
                   events, hostVars, exitCode>>

\* Variant: the callback resolves before it looks at the error.
EndCallback_ResolveFirst(err) ==
    /\ endPending
    /\ reaction \notin {"then", "catch"}
    /\ ~EntryWaiting
    /\ ~crashed
    /\ endPending' = FALSE
    /\ log' = log \o <<Note("endCallback", err), Note("resolve", outcome.val)>>
                  \o (IF err # NoErr THEN <<Note("reject", err)>> ELSE <<>>)
    /\ callerPromise' =
          IF err # NoErr
          THEN OuterReject(OuterResolve(callerPromise, outcome.val), err)
          ELSE OuterResolve(callerPromise, outcome.val)
    /\ UNCHANGED <<messageResponses, interpreterClass, phase, interpreter,
                   terminated, outcome, reaction, logicMessages, crashed,
                   events, hostVars, exitCode>>

\* The callback given to end (lines 179-191).
\* Variant: the callback given to end resolves without the result.
EndCallback_DropsResult(err) ==
    /\ endPending
    /\ reaction \notin {"then", "catch"}
    /\ ~EntryWaiting
    /\ ~crashed
    /\ endPending' = FALSE
    /\ IF err # NoErr
       THEN /\ log' = log \o <<Note("endCallback", err), Note("reject", err),
                              Note("resolve", Undefined)>>
            /\ callerPromise' =
                  OuterResolve(OuterReject(callerPromise, err), Undefined)
       ELSE /\ log' = log \o <<Note("endCallback", err),
                              Note("resolve", Undefined)>>
            /\ callerPromise' = OuterResolve(callerPromise, Undefined)
    /\ UNCHANGED <<messageResponses, interpreterClass, phase, interpreter,
                   terminated, outcome, reaction, logicMessages, crashed,
                   events, hostVars, exitCode>>

EndCallback(err) ==
    /\ endPending
    /\ reaction \notin {"then", "catch"}
    /\ ~EntryWaiting
    /\ ~crashed
    /\ endPending' = FALSE
    /\ IF err # NoErr
       THEN /\ log' = log \o <<Note("endCallback", err), Note("reject", err),
                              Note("resolve", outcome.val)>>
            /\ callerPromise' =
                  OuterResolve(OuterReject(callerPromise, err), outcome.val)
       ELSE /\ log' = log \o <<Note("endCallback", err),
                              Note("resolve", outcome.val)>>
            /\ callerPromise' = OuterResolve(callerPromise, outcome.val)
    /\ UNCHANGED <<messageResponses, interpreterClass, phase, interpreter,
                   terminated, outcome, reaction, logicMessages, crashed,
                   events, hostVars, exitCode>>

\* The entry point after the promise of runScript settled (index.ts lines
\* 51-62): both callbacks return normally and no exit code is set.
EntryReaction ==
    /\ EntryWaiting
    /\ ~crashed
    /\ exitCode' = "0"
    /\ UNCHANGED <<messageResponses, interpreterClass, phase, interpreter,
                   terminated, outcome, reaction, endPending, callerPromise,
                   logicMessages, crashed, events, log, hostVars>>

\* The entry point of index.ts lines 32-63: process.env has no method
\* includes, the call at line 45 throws before runScript is reached and the
\* promise of the entry function is rejected with no handler: the runtime
\* ends the process with code 1, or only warns and the process ends with 0.
EntryEnvCheckThrows ==
    /\ phase = "created"
    /\ phase' = "aborted"
    /\ exitCode' \in {"0", "1"}
    /\ log' = Append(log, Note("typeError", Undefined))
    /\ UNCHANGED <<messageResponses, interpreterClass, interpreter,
                   terminated, outcome, reaction, endPending, callerPromise,
                   logicMessages, crashed, events, hostVars>>

Next ==
    \/ RunSpawns
    \/ RunSpawnFails
    \/ EntryReaction
    \/ EntryEnvCheckThrows
    \/ \E chunk \in Chunks : MessageEvent(chunk)
    \/ \E name \in {"error", "pythonError"} :
          ErrorEvent(name, IF name = "error" THEN InterpreterErr ELSE PythonErr)
    \/ ProcessExits
    \/ ThenReaction
    \/ CatchReaction
    \/ \E err \in {NoErr, ShutdownErr} : EndCallback(err)

Spec == Init /\ [][Next]_vars

\* The same program when every waiting promise reaction runs and the handle
\* calls the callback given to end.
LiveSpec ==
    /\ Spec
    /\ WF_vars(ThenReaction)
    /\ WF_vars(CatchReaction)
    /\ WF_vars(\E err \in {NoErr, ShutdownErr} : EndCallback(err))
    /\ WF_vars(EntryReaction)

\* ------------------------------------------------- runs of one Runner
RunsStarted == Cardinality({i \in DOMAIN log : log[i].ev = "run"})

\* runScript of the Runner: a new Communicator is given the script and the
\* Runner's interpreter options (the same object for every run) and its run
\* executes up to the construction of the handle.  The log keeps the
\* interpreter path and the working directory the run starts from, and the
\* script it was asked to run.
RunScript(asked) ==
    /\ RunsStarted < MaxRuns
    /\ LET host == Adjusted([Host EXCEPT !.script = asked])
       IN /\ script' = host.script
          /\ pythonPath' = host.pythonPath
          /\ cwd' = host.cwd
    /\ phase' = "running"
    /\ interpreter' = "handle"
    /\ terminated' = FALSE
    /\ outcome' = Pending
    /\ reaction' = "none"
    /\ endPending' = FALSE
    /\ callerPromise' = Pending
    /\ logicMessages' = <<>>
    /\ crashed' = FALSE
    /\ events' = 0
    /\ log' = log \o <<Entry("run", pythonPath, cwd, asked, Undefined),
                        Note("spawn", Undefined)>>
    /\ UNCHANGED <<messageResponses, interpreterClass, platform, exitCode>>

\* A Runner as configured, before any run.
RunnerInit ==
    /\ messageResponses = <<>>
    /\ interpreterClass = "PythonShell"
    /\ FreshRun
    /\ log = <<>>
    /\ script = <<>>
    /\ pythonPath \in PythonPaths
    /\ cwd = StartDir
    /\ platform \in Platforms

RunnerNext == \E asked \in Scripts : RunScript(asked)

RunnerSpec == RunnerInit /\ [][RunnerNext]_vars

\* ------------------------------------------------------- reading the log
Positions(evs) == {i \in DOMAIN log : log[i].ev \in evs}
Count(evs) == Cardinality(Positions(evs))

HookCalls == {"hookResolve", "hookReject", "spawnFailed"}
Signals == {"end", "kill"}
Deliveries == {"resolve", "reject"}

Recorded == outcome.kind # "unset"
Delivered == callerPromise.kind # "unset"

\* The settlement the log entry at i asks for.
Asked(i) ==
    [kind |-> IF log[i].ev = "hookResolve" THEN "success" ELSE "failure",
     val |-> log[i].val]

\* The subprocess stopped before any signal was sent to it.
ExitedUnsignalled ==
    \E i \in Positions({"exited"}) : \A j \in Positions(Signals) : i < j

\* The entry at i opens the processing of one line (not of a chunk that is
\* split).
IsLine(i) == log[i].ev = "respond" /\ ~Includes(Trim(log[i].msg), NL)
Lines == {i \in DOMAIN log : IsLine(i)}
IsSentinel(i) == Trim(log[i].msg) = EXITING_MESSAGE

\* The entry that closes the line opened at i: its push, or the end of the
\* listener when an exception left it.
RECURSIVE StopFrom(_)
StopFrom(k) ==
    IF k >= Len(log) \/ log[k].ev \in {"push", "uncaught"} THEN k
    ELSE StopFrom(k + 1)
Stop(i) == StopFrom(i + 1)
Returned(i) == log[Stop(i)].ev = "push"

\* Callbacks invoked for the line opened at i.
CallbacksOf(i) == {j \in (i + 1)..(Stop(i) - 1) : log[j].ev = "callback"}
CallsOfKey(i, key) == {j \in CallbacksOf(i) : log[j].key = key}

Keys == {messageResponses[r].key : r \in DOMAIN messageResponses}
Matching(message) ==
    {key \in Keys \ {DEFAULT_KEY} : PromptMatches(key, message)}

\* ------------------------------------------------------------------ C1
\* C1: in every reachable state of a run the caller's resolve and reject
\* hooks have been invoked at most once in total.
C1_HooksInvokedAtMostOnce == Count(Deliveries) <= 1

\* ------------------------------------------------------------------ C2
\* C2: whenever an outcome has been recorded on a run that has a handle, the
\* caller eventually receives a fulfilment or a rejection (or the host
\* process has died of an uncaught exception), given that waiting promise
\* reactions run and the handle calls the callback given to end; also when
\* the terminated flag is already true when the outcome is handled.
C2_RecordedLeadsToDelivery ==
    (Recorded /\ interpreter = "handle" /\ ~crashed) ~> (Delivered \/ crashed)

\* ------------------------------------------------------------------ C3
\* C3: end and kill are called at most once in total; and once the outcome
\* has been delivered in a run whose subprocess did not stop on its own,
\* exactly once.
C3_OneTerminationSignal ==
    /\ Count(Signals) <= 1
    /\ (Delivered /\ ~ExitedUnsignalled) => Count(Signals) = 1

C3_Witness ==
    /\ Delivered
    /\ ~ExitedUnsignalled
    /\ Count(Signals) = 1
    /\ \E i \in Positions(Deliveries) :
          \E j \in Positions({"message", "error", "pythonError"}) : i < j

\* ------------------------------------------------------------------ C4
\* C4: the outcome is recorded before end or kill is called, end or kill
\* (when called) is called before the caller's resolve or reject, and no
\* end or kill is called while no outcome is recorded.
C4_RecordSignalDeliverOrder ==
    /\ Count(Signals) > 0 => Recorded
    /\ \A s \in Positions(Signals) : \E h \in Positions(HookCalls) : h < s
    /\ \A s \in Positions(Signals) : \A d \in Positions(Deliveries) : s < d
    /\ \A d \in Positions(Deliveries) : \E h \in Positions(HookCalls) : h < d

C4_Witness ==
    /\ Count({"kill"}) = 1
    /\ Count({"reject"}) = 1
    /\ Recorded

\* ------------------------------------------------------------------ C5
\* C5: the recorded outcome is the one the first hook call (sentinel,
\* callback hook or error event) asked for, whatever hook calls follow.
C5_FirstRecordingWins ==
    IF Positions(HookCalls) = {} THEN outcome = Pending
    ELSE \E first \in Positions(HookCalls) :
            /\ \A h \in Positions(HookCalls) : first <= h
            /\ outcome = Asked(first)

\* Two callbacks of one message called opposite hooks.
C5_Witness ==
    \E h1, h2 \in Positions(HookCalls) :
        /\ h1 < h2
        /\ log[h1].ev # log[h2].ev
        /\ \A k \in h1..h2 : log[k].ev \notin {"message", "responded"}
        /\ outcome = Asked(h1)

\* ------------------------------------------------------------------ C6
\* C6: when success was recorded by the sentinel and the callback of end
\* reports an error, the promise runScript returned is rejected with that
\* error and not fulfilled.
C6_ShutdownErrorRejects ==
    \A e \in Positions({"endCallback"}) :
        (log[e].val # NoErr /\ outcome = [kind |-> "success", val |-> Undefined])
            => callerPromise = [kind |-> "rejected", val |-> log[e].val]

C6_Witness ==
    /\ \E e \in Positions({"endCallback"}) : log[e].val = ShutdownErr
    /\ \E h \in Positions({"hookResolve"}) : log[h - 1].ev = "respond"
    /\ outcome = [kind |-> "success", val |-> Undefined]
    /\ callerPromise = [kind |-> "rejected", val |-> ShutdownErr]

\* ------------------------------------------------------------------ C7
\* C7: an 'error' event, or a 'pythonError' event when the class is
\* PythonShell, that arrives while no outcome is recorded records a failure
\* with that error; kill is called if the terminated flag is false and the
\* caller is rejected with that error; if no message arrived before, no
\* callback was invoked and the history is empty.
ErrorArrivedFirst(e) ==
    /\ log[e].ev = "error" \/ (log[e].ev = "pythonError" /\ interpreterClass = "PythonShell")
    /\ \A h \in Positions(HookCalls) : e < h

C7_ErrorEventFailsRun ==
    \A e \in Positions({"error", "pythonError"}) :
        ErrorArrivedFirst(e) =>
            /\ outcome = [kind |-> "failure", val |-> log[e].val]
            /\ reaction \in {"catch", "done"}
            /\ reaction = "done" =>
                  /\ callerPromise = [kind |-> "rejected", val |-> log[e].val]
                  /\ Count({"kill"}) = 1 <=> \A x \in Positions({"exited"}) : e < x
                  /\ Count({"end"}) = 0
            /\ Positions({"message"}) = {} =>
                  /\ Positions({"callback"}) = {}
                  /\ logicMessages = <<>>

C7_Witness ==
    \E e \in Positions({"pythonError"}) :
        /\ ErrorArrivedFirst(e)
        /\ Positions({"message"}) = {}
        /\ Count({"kill"}) = 1
        /\ callerPromise = [kind |-> "rejected", val |-> PythonErr]
        /\ logicMessages = <<>>

\* ------------------------------------------------------------------ C8
\* C8: for a line whose trimmed text is the sentinel, respondToMessage calls
\* the completion-success hook with no value (which records success with no
\* value unless an outcome was recorded before) and invokes no callback of
\* the rule table, also when a key of the table matches the sentinel.
C8_SentinelBypassesRules ==
    \A i \in Lines :
        IsSentinel(i) =>
            /\ i + 2 <= Len(log)
            /\ log[i + 1] = Note("hookResolve", Undefined)
            /\ log[i + 2] = Entry("push", <<>>, log[i].msg, <<>>, Undefined)
            /\ (\A h \in Positions(HookCalls) : i < h) =>
                   outcome = [kind |-> "success", val |-> Undefined]

C8_Witness ==
    \E i \in Lines :
        /\ IsSentinel(i)
        /\ log[i].msg # EXITING_MESSAGE
        /\ Matching(log[i].msg) # {}
        /\ HasDefault(messageResponses)
        /\ outcome = [kind |-> "success", val |-> Undefined]

\* C8 as stated: every sentinel line leaves success with no value recorded
\* and invokes no callback.
C8_SentinelAlwaysRecordsSuccess ==
    \A i \in Lines :
        IsSentinel(i) =>
            /\ outcome = [kind |-> "success", val |-> Undefined]
            /\ CallbacksOf(i) = {}

\* ------------------------------------------------------------------ C9
\* C9: for a line that is not the sentinel and matches two or more
\* non-default keys, no callback of a non-matching key and no `_default`
\* callback is invoked, no callback is invoked twice, and when
\* respondToMessage returns every matching key's callback has been invoked
\* exactly once.
C9_AllMatchingRulesFire ==
    \A i \in Lines :
        LET matching == Matching(log[i].msg)
            called == CallbacksOf(i)
        IN (~IsSentinel(i) /\ Cardinality(matching) >= 2) =>
              /\ \A c \in called : log[c].key \in matching
              /\ \A c, d \in called : log[c].key = log[d].key => c = d
              /\ Returned(i) =>
                    \A key \in matching : \E c \in called : log[c].key = key

C9_Witness ==
    \E i \in Lines :
        /\ ~IsSentinel(i)
        /\ Returned(i)
        /\ Cardinality(Matching(log[i].msg)) = 2
        /\ Cardinality(CallbacksOf(i)) = 2
        /\ \E key \in Keys \ {DEFAULT_KEY} : key \notin Matching(log[i].msg)

\* ----------------------------------------------------------------- C10
\* C10: for a line that is not the sentinel and matches no non-default key,
\* only `_default` can be invoked, and when respondToMessage returns it has
\* been invoked exactly once if the table has the key and not at all
\* otherwise; `_default` is not tested as a pattern: for any line that
\* matches a non-default key it is not invoked, also when the line contains
\* the text "_default".
C10_DefaultOnlyWhenNothingMatches ==
    \A i \in Lines :
        LET matching == Matching(log[i].msg)
            called == CallbacksOf(i)
        IN ~IsSentinel(i) =>
              /\ matching = {} =>
                    /\ \A c \in called : log[c].key = DEFAULT_KEY
                    /\ Cardinality(called) <= 1
                    /\ Returned(i) =>
                          Cardinality(called)
                              = IF HasDefault(messageResponses) THEN 1 ELSE 0
              /\ matching # {} =>
                    \A c \in called : log[c].key # DEFAULT_KEY

C10_Witness ==
    /\ \E i \in Lines :
          /\ ~IsSentinel(i) /\ Returned(i)
          /\ Matching(log[i].msg) = {}
          /\ Cardinality(CallsOfKey(i, DEFAULT_KEY)) = 1
    /\ \E i \in Lines :
          /\ ~IsSentinel(i) /\ Returned(i)
          /\ RegExpTest(DEFAULT_KEY, log[i].msg)
          /\ Matching(log[i].msg) # {}
          /\ HasDefault(messageResponses)

\* ------------------------------------------------------------------ C11
\* The lines a chunk is delivered as: the lines of the trimmed chunk when it
\* holds a line separator, the chunk as sent otherwise.
LinesOf(chunk) ==
    IF Includes(Trim(chunk), NL) THEN Split(Trim(chunk), NL) ELSE <<chunk>>

\* The lines of the chunks among the first k entries of a log, in order.
RECURSIVE LinesDelivered(_, _)
LinesDelivered(l, k) ==
    IF k = 0 THEN <<>>
    ELSE LinesDelivered(l, k - 1)
         \o (IF l[k].ev = "message" THEN LinesOf(l[k].msg) ELSE <<>>)

\* The lines pushed among the first k entries of a log, in order.
RECURSIVE LinesPushed(_, _)
LinesPushed(l, k) ==
    IF k = 0 THEN <<>>
    ELSE LinesPushed(l, k - 1)
         \o (IF l[k].ev = "push" THEN <<l[k].msg>> ELSE <<>>)

IsPrefix(s, t) == Len(s) <= Len(t) /\ SubSeq(t, 1, Len(s)) = s

\* C11: every step leaves the message history an extension of what it was;
\* whenever the listener has returned from all messages so far (no exception
\* ended the process) the history is exactly the delivered lines in delivery
\* order, each once, whatever fired for them; and a callback called for a
\* line is given the history of the lines before that line.
C11_HistoryIsDeliveredLines ==
    [][/\ IsPrefix(logicMessages, logicMessages')
       /\ ~crashed' => logicMessages' = LinesDelivered(log', Len(log'))
       /\ \A j \in (Len(log) + 1)..Len(log') :
             log'[j].ev = "callback" => log'[j].hist = LinesPushed(log', j)]_vars

\* Two chunks were delivered, one of them of two lines one of which is the
\* sentinel, and three lines are in the history.
C11_Witness ==
    /\ ~crashed
    /\ Count({"message"}) = 2
    /\ Len(logicMessages) = 3
    /\ \E i \in Positions({"push"}) : Trim(log[i].msg) = EXITING_MESSAGE
    /\ \E i \in Positions({"callback"}) : log[i].key = DEFAULT_KEY
    /\ \E i \in Lines : Returned(i) /\ CallbacksOf(i) = {}

\* ------------------------------------------------------------------ C12
\* respondToMessage called on each of the lines separately, in order; an
\* exception that leaves one call ends the process before the next.
RECURSIVE SeparateCalls(_, _, _)
SeparateCalls(table, lines, f) ==
    IF lines = <<>> \/ f.thrown THEN f
    ELSE SeparateCalls(table, Tail(lines),
             [RespondToMessage(table, Head(lines), f) EXCEPT !.depth = 0])

\* The calls of a log without telling a direct call from a nested one.
CallsMade(l) ==
    [i \in DOMAIN l |->
        IF l[i].ev = "respond" THEN [l[i] EXCEPT !.val = "call"] ELSE l[i]]

SplitChunks == {chunk \in Chunks : Includes(Trim(chunk), NL)}

\* C12: every delivery of a chunk whose trimmed text holds a line separator
\* makes, after the call on the chunk itself, the same calls with the same
\* arguments in the same order, records the same outcome and leaves the
\* same history as respondToMessage on each line of the trimmed chunk in
\* order, from the state the chunk arrived in; the chunk itself reaches no
\* callback and is not pushed.
C12_SplitChunkIsItsLines ==
    [][(/\ Len(log') > Len(log)
        /\ log'[Len(log) + 1].ev = "message"
        /\ log'[Len(log) + 1].msg \in SplitChunks) =>
           LET chunk == log'[Len(log) + 1].msg
               made == SubSeq(log', Len(log) + 3, Len(log') - 1)
               apart == SeparateCalls(messageResponses, Split(Trim(chunk), NL),
                                      Frame(outcome, logicMessages, <<>>))
           IN /\ log'[Len(log) + 2].ev = "respond"
              /\ log'[Len(log) + 2].msg = chunk
              /\ CallsMade(made) = CallsMade(apart.log)
              /\ outcome' = apart.outcome
              /\ logicMessages' = apart.logicMessages
              /\ crashed' = apart.thrown
              /\ \A i \in DOMAIN made :
                    made[i].ev \in {"callback", "push"} => made[i].msg # chunk]_vars

\* A chunk of two lines was delivered with a rule table that answers its
\* lines, and both lines are in the history.
C12_Witness ==
    /\ ~crashed
    /\ \E i \in Positions({"message"}) :
          /\ log[i].msg \in SplitChunks
          /\ LET lines == Split(Trim(log[i].msg), NL)
             IN /\ \E j, k \in Positions({"callback"}) :
                      i < j /\ j < k /\ log[j].msg = lines[1] /\ log[k].msg = lines[2]
                /\ \E j, k \in Positions({"push"}) :
                      i < j /\ j < k /\ log[j].msg = lines[1] /\ log[k].msg = lines[2]

\* ------------------------------------------------------------------ C13
\* The first call of a hook of the promise created in run: the one that
\* records the outcome.
FirstHookCall == CHOOSE h \in Positions(HookCalls) :
                    \A g \in Positions(HookCalls) : h <= g

\* The hook call at h was made by a response callback (of a matched rule or
\* of "_default"), and not by the sentinel.
ByCallback(h) == log[h - 1].ev = "callback"
BySentinel(h) == log[h - 1].ev = "respond" /\ IsSentinel(h - 1)

\* C13: once the callback given to end has been called without an error,
\* the caller is fulfilled with exactly the value the recording hook call
\* passed: the value a response callback gave to its completion-success
\* hook, or no value when the sentinel recorded the success.
C13_FulfilledWithRecordedValue ==
    \A e \in Positions({"endCallback"}) :
        log[e].val = NoErr =>
            LET h == FirstHookCall
            IN /\ log[h].ev = "hookResolve"
               /\ ByCallback(h) => log[h].val = CallbackValue
               /\ BySentinel(h) => log[h].val = Undefined
               /\ callerPromise = [kind |-> "fulfilled", val |-> log[h].val]

\* A response callback recorded the success with its value, the sentinel
\* came after it, and the shutdown completed without an error.
C13_Witness ==
    /\ \E e \in Positions({"endCallback"}) : log[e].val = NoErr
    /\ ByCallback(FirstHookCall)
    /\ \E g \in Positions({"hookResolve"}) : BySentinel(g)
    /\ callerPromise.val = CallbackValue

\* ------------------------------------------------------------------ C14
\* C14: when a response callback has thrown during the dispatch of a
\* message, the completion-failure hook has been called after the throw, so
\* that an outcome is recorded, and it is the failure when nothing was
\* recorded before the throw.
C14_ThrowTakesFailurePath ==
    \A i \in Positions({"callback"}) :
        log[i].val = "throw" =>
            /\ \E h \in Positions({"hookReject"}) : i < h
            /\ Recorded
            /\ (\A h \in Positions(HookCalls) : i < h) => outcome.kind = "failure"

\* ------------------------------------------------------------------ C15
\* C15: in a run whose interpreter factory threw, no message is dispatched
\* and, once the catch callback of run has run, the caller is rejected with
\* the reason the factory threw.
C15_SpawnFailureRejectsCaller ==
    Count({"spawnFailed"}) > 0 =>
        /\ Positions({"message", "respond", "callback"}) = {}
        /\ reaction = "done" =>
              callerPromise = [kind |-> "rejected", val |-> SpawnErr]

\* ------------------------------------------------------------------ C16
\* C16: for a line whose processing starts after a hook call has recorded
\* an outcome (a line that follows the sentinel in its chunk, a message
\* after an error event, after end or after kill), no callback of the rule
\* table is invoked.
C16_NoDispatchOnceRecorded ==
    \A i \in Lines :
        (\E h \in Positions(HookCalls) : h < i) => CallbacksOf(i) = {}

\* ------------------------------------------------------------------ C17
\* C17 as stated: a recorded success was recorded by the processing of the
\* sentinel.
C17_SuccessOnlyBySentinel ==
    outcome.kind = "success" => BySentinel(FirstHookCall)

\* C17, amended: a recorded success was recorded by a call of the
\* completion-success hook made either by the processing of the sentinel or
\* by a response callback that was given the hook; no error event, exit of
\* the subprocess, promise reaction or shutdown callback records a success.
C17_SuccessOnlyBySentinelOrCallback ==
    outcome.kind = "success" =>
        LET h == FirstHookCall
        IN /\ log[h].ev = "hookResolve"
           /\ \/ BySentinel(h)
              \/ ByCallback(h) /\ log[h - 1].val = "resolve"
           /\ \E m \in Positions({"message"}) :
                 m < h /\ \A j \in (m + 1)..h : log[j].ev \notin {"message", "responded"}

\* A response callback recorded the success and end was called on the
\* handle, with no sentinel in the run.
C17_Witness ==
    /\ outcome.kind = "success"
    /\ ByCallback(FirstHookCall)
    /\ Count({"end"}) > 0
    /\ \A i \in Lines : ~IsSentinel(i)

\* ------------------------------------------------------------------ C18
\* C18: every run issued from one Runner starts from the interpreter path
\* and the working directory the Runner was configured with (those the
\* first run starts from), whatever paths the earlier runs adjusted.
C18_RunsStartFromConfiguration ==
    \A i, j \in Positions({"run"}) :
        log[i].key = log[j].key /\ log[i].msg = log[j].msg

\* ------------------------------------------------------------------ C19
\* C19: once the entry point has finished with the run (and no uncaught
\* exception ended the process), the exit code of the process is not 0 when
\* the recorded outcome is a failure and is 0 when it is a success.
C19_ExitCodeFollowsOutcome ==
    exitCode # "running" /\ ~crashed =>
        /\ outcome.kind = "failure" => exitCode # "0"
        /\ outcome.kind = "success" => exitCode = "0"

\* ------------------------------------------------------------------ C20
\* C20: kill has been called on the handle only in a run whose recorded
\* outcome is a failure, end only in a run whose recorded outcome is a
\* success; and when the callback given to end was called with an error, no
\* kill was called and the call that follows is the caller's reject with
\* that error, which is what the caller receives.
C20_SignalFollowsOutcome ==
    /\ Count({"kill"}) > 0 => outcome.kind = "failure"
    /\ Count({"end"}) > 0 => outcome.kind = "success"
    /\ \A e \in Positions({"endCallback"}) :
          log[e].val # NoErr =>
              /\ Count({"kill"}) = 0
              /\ log[e + 1] = Note("reject", log[e].val)
              /\ callerPromise = [kind |-> "rejected", val |-> log[e].val]

\* After a success, end was called on a running subprocess and its callback
\* reported an error; the subprocess stopped afterwards.
C20_Witness ==
    /\ outcome.kind = "success"
    /\ Count({"end"}) = 1
    /\ \E e \in Positions({"endCallback"}) : log[e].val = ShutdownErr
    /\ Count({"kill"}) = 0
    /\ terminated

\* ------------------------------------------------------------------ C21
\* C21: no step calls end or kill on the handle while the terminated flag
\* of the handle is true: the then callback and the catch callback read the
\* flag when they handle the outcome and send no signal when it is set.
C21_NoSignalWhenTerminated ==
    [][\A j \in (Len(log) + 1)..Len(log') :
          log'[j].ev \in Signals => ~terminated]_vars

\* The subprocess had stopped by itself when a failure was handled: the
\* caller is rejected and no signal was sent.
C21_Witness ==
    /\ terminated
    /\ outcome.kind = "failure"
    /\ reaction = "done"
    /\ callerPromise.kind = "rejected"
    /\ Count(Signals) = 0

\* ------------------------------------------------------------------ C22
\* What the step added to the call log.
Made == SubSeq(log', Len(log) + 1, Len(log'))

\* The call of respondToMessage that an entry at p of a piece of call
\* log belongs to: the last one opened before p.
LastRespond(l, p) ==
    CHOOSE r \in 1..(p - 1) :
        /\ l[r].ev = "respond"
        /\ \A q \in (r + 1)..(p - 1) : l[q].ev # "respond"

\* C22: in every delivery of a message, a callback invoked for a line is
\* given the history of exactly the lines pushed before, the line itself
\* not yet among them; a push is of the line being processed, is the only
\* one for it, and is followed by nothing but the next line or the end of
\* the listener.
C22_PushIsTheFinalStep ==
    [][\A j \in DOMAIN Made :
          /\ Made[j].ev = "callback" =>
                Made[j].hist = logicMessages \o LinesPushed(Made, j)
          /\ Made[j].ev = "push" =>
                LET r == LastRespond(Made, j)
                IN /\ Made[r].msg = Made[j].msg
                   /\ \A q \in (r + 1)..(j - 1) : Made[q].ev # "push"
                   /\ Made[j + 1].ev \in {"respond", "responded"}]_vars

\* A callback was invoked for a second line with the first line as the
\* history, and the second line was pushed after the callback's calls.
C22_Witness ==
    /\ ~crashed
    /\ \E i \in Lines :
          /\ Returned(i)
          /\ \E j \in CallbacksOf(i) :
                /\ Len(log[j].hist) = 1
                /\ log[j].hist[1] # log[j].msg
                /\ j + 1 < Stop(i)
          /\ Len(logicMessages) = 2
          /\ logicMessages[2] = log[i].msg

\* ------------------------------------------------------------------ C23
IsCallbackEntry(e) == e.ev = "callback"

\* The keys whose callbacks were invoked for the line opened at i, in the
\* order of the calls.
KeysCalled(i) ==
    LET calls == SelectSeq(SubSeq(log, i + 1, Stop(i) - 1), IsCallbackEntry)
    IN [n \in DOMAIN calls |-> calls[n].key]

\* The same within a piece of call log.
RECURSIVE StopIn(_, _)
StopIn(l, k) ==
    IF k >= Len(l) \/ l[k].ev \in {"push", "uncaught"} THEN k
    ELSE StopIn(l, k + 1)

KeysCalledIn(l, i) ==
    LET calls == SelectSeq(SubSeq(l, i + 1, StopIn(l, i + 1) - 1), IsCallbackEntry)
    IN [n \in DOMAIN calls |-> calls[n].key]

\* The keys a rule table answers a message with, from the table and the
\* message alone: none for the sentinel, the prompts that match in table
\* order, "_default" when none matches and the table has it.
KeysFor(table, message) ==
    LET Answers(rule) ==
            rule.key # DEFAULT_KEY /\ PromptMatches(rule.key, message)
        matched == SelectSeq(table, Answers)
    IN IF Trim(message) = EXITING_MESSAGE THEN <<>>
       ELSE IF matched # <<>> THEN [n \in DOMAIN matched |-> matched[n].key]
       ELSE IF HasDefault(table) THEN <<DEFAULT_KEY>>
       ELSE <<>>

\* C23: in every delivery, for every line whose processing returns: the
\* callbacks invoked are those the rule table and the text of the line
\* determine, whatever was delivered or recorded before; and for a line
\* that is not the sentinel, matches no prompt and has no "_default" to fall
\* back on, respondToMessage does nothing but push the line (no callback,
\* no hook call that could record an outcome, nothing sent to the
\* subprocess or to the UI), so that a chunk of that one line leaves the
\* recorded outcome as it was and the history longer by the line.
C23_ResponderKeepsNoState ==
    [][\A i \in DOMAIN Made :
          (/\ Made[i].ev = "respond"
           /\ ~Includes(Trim(Made[i].msg), NL)
           /\ Made[StopIn(Made, i + 1)].ev = "push") =>
              LET message == Made[i].msg
                  keys == KeysFor(messageResponses, message)
              IN /\ KeysCalledIn(Made, i) = keys
                 /\ (keys = <<>> /\ Trim(message) # EXITING_MESSAGE) =>
                       /\ StopIn(Made, i + 1) = i + 1
                       /\ Made[i + 1].msg = message
                       /\ Made[i].val = "top" =>
                             /\ Len(Made) = i + 2
                             /\ outcome' = outcome
                             /\ logicMessages' = Append(logicMessages, message)]_vars

\* With a table of one prompt and no "_default", a line that matches
\* nothing was only pushed, and a line that matches was answered by the
\* same callback before and after it.
C23_Witness ==
    /\ ~crashed
    /\ DEFAULT_KEY \notin Keys
    /\ outcome.kind = "unset"
    /\ \E i \in Lines :
          Returned(i) /\ ~IsSentinel(i) /\ Matching(log[i].msg) = {}
    /\ \E i, k \in Lines :
          /\ i < k
          /\ log[i].msg = log[k].msg
          /\ Returned(i) /\ Returned(k)
          /\ KeysCalled(i) # <<>>
          /\ \E j \in Lines : i < j /\ j < k

\* ------------------------------------------------------------------ C24
\* The message satisfies the prompt read as a regular expression.
SatisfiesAsRegExp(key, message) == RegExpValid(key) /\ RegExpTest(key, message)

\* C24: for every line that is not the sentinel and every prompt other than
\* "_default", a callback invoked for the prompt means the line satisfies
\* the prompt as a regular expression or its trimmed text equals the prompt,
\* and a prompt whose text equals the trimmed line has its callback invoked,
\* whether or not the text is a valid regular expression.
C24_LiteralPromptAlwaysFires ==
    \A i \in Lines :
        ~IsSentinel(i) =>
            \A key \in Keys \ {DEFAULT_KEY} :
                /\ CallsOfKey(i, key) # {} =>
                      \/ SatisfiesAsRegExp(key, log[i].msg)
                      \/ key = Trim(log[i].msg)
                /\ key = Trim(log[i].msg) => CallsOfKey(i, key) # {}

\* ------------------------------------------------------------------ C25
\* C25: whenever the subprocess has stopped by itself with no outcome
\* recorded, the caller eventually receives a fulfilment or a rejection,
\* unless a later event records an outcome after all (or the host process
\* dies of an uncaught exception); given that waiting promise reactions run
\* and the handle calls the callback given to end.
C25_SilentExitLeadsToDelivery ==
    (terminated /\ ~Recorded /\ ~crashed) ~> (Delivered \/ Recorded \/ crashed)

\* ------------------------------------------------------------------ C26
\* C26: every call of send on the handle made through the sendLogicMessage
\* hook comes before the call of end or kill of the run.
C26_NoSendAfterSignal ==
    \A s \in Positions(Signals) : \A j \in Positions({"send"}) : j < s

\* ------------------------------------------------------------------ C27
IsNestedCall(e) == e.ev = "respond" /\ e.val = "nested"

\* The messages of the calls respondToMessage made to itself within a piece
\* of call log, in order.
NestedCalls(l) ==
    LET calls == SelectSeq(l, IsNestedCall)
    IN [n \in DOMAIN calls |-> calls[n].msg]

\* The piece of the call log of the listener's run for the chunk delivered
\* at m: up to the end of the log or the next delivery.
DeliveryAt(m) ==
    LET later == {k \in Positions({"message"}) : k > m}
        last == IF later = {} THEN Len(log)
                ELSE (CHOOSE k \in later : \A q \in later : k <= q) - 1
    IN SubSeq(log, m, last)

\* C27: the call of respondToMessage on a delivered chunk ends; the calls
\* it makes to itself are all on texts that are not split again (one level
\* of recursion), there is none for a chunk that is not split, and when the
\* call returns they are exactly the lines of the trimmed chunk, in order.
C27_RecursionIsOneLevel ==
    [][(Made # <<>> /\ Made[1].ev = "message") =>
          LET chunk == Made[1].msg
              nested == NestedCalls(Made)
          IN /\ Made[Len(Made)].ev \in {"responded", "uncaught"}
             /\ Made[2].ev = "respond" /\ Made[2].val = "top"
             /\ Made[2].msg = chunk
             /\ \A n \in DOMAIN nested : ~Includes(Trim(nested[n]), NL)
             /\ ~Includes(Trim(chunk), NL) => nested = <<>>
             /\ (Includes(Trim(chunk), NL) /\ ~crashed') =>
                   nested = Split(Trim(chunk), NL)]_vars

\* A chunk of two lines was delivered and gave two nested calls, and a
\* chunk that only ends with a line separator gave none.
C27_Witness ==
    /\ ~crashed
    /\ \E m \in Positions({"message"}) : Len(NestedCalls(DeliveryAt(m))) = 2
    /\ \E m \in Positions({"message"}) :
          Includes(log[m].msg, NL) /\ NestedCalls(DeliveryAt(m)) = <<>>

====
